---- MODULE Spec2Model ----
(***************************************************************************)
(* haaska: the Alexa smart-home adapter for Home Assistant (src/haaska.py) *)
(* and the way src/test.py drives it.                                      *)
(*                                                                         *)
(* Python values are tagged records of one fixed shape, so that any two of *)
(* them can be compared.  A Python str is a tuple of one-character         *)
(* strings; str.replace, str.rstrip and the f-strings are computed on      *)
(* those tuples.  The User-Agent alone is kept as a TLA+ string.           *)
(***************************************************************************)
EXTENDS Integers, Sequences, FiniteSets, TLC

VARIABLES
    config,        \* the Configuration object held by the caller
    environ,       \* os.environ entry AWS_DEFAULT_REGION
    session,       \* the requests.Session built by SessionFactory
    built_region,  \* history: what environ held when session was built
    ha,            \* the HomeAssistant object held by the caller
    log_level,     \* level of the root logger (process-wide)
    op,            \* the operation that ran last
    args,          \* its arguments
    result,        \* its outcome: a returned value or a raised exception
    sent           \* outbound HTTP calls issued by the operation that ran last

vars == <<config, environ, session, built_region, ha, log_level, op, args, result, sent>>

---------------------------------------------------------------------------
(* Bounds of the model.                                                    *)

\* an input URL is a concatenation of at most this many pieces of UrlPieces
MaxUrlPieces == 5

---------------------------------------------------------------------------
(* Python values.                                                          *)

PyVal(t, s, b, l, n) == [t |-> t, s |-> s, b |-> b, l |-> l, n |-> n]
None      == PyVal("NoneType", <<>>, FALSE, <<>>, 0)
PyStr(s)  == PyVal("str", s, FALSE, <<>>, 0)
PyBool(b) == PyVal("bool", <<>>, b, <<>>, 0)
PyList(l) == PyVal("list", <<>>, FALSE, l, 0)
PyTuple(l) == PyVal("tuple", <<>>, FALSE, l, 0)
PyNum(n)  == PyVal("int", <<>>, FALSE, <<>>, n)
\* a JSON object whose content is opaque to the adapter; s names the content
PyDict(s) == PyVal("dict", s, FALSE, <<>>, 0)

\* Python truthiness, as `not url` uses it (a named dict here is non-empty)
Truthy(v) ==
    CASE v.t = "NoneType" -> FALSE
      [] v.t = "str"      -> v.s # <<>>
      [] v.t = "bool"     -> v.b
      [] v.t = "list"     -> v.l # <<>>
      [] v.t = "tuple"    -> v.l # <<>>
      [] v.t = "int"      -> v.n # 0
      [] OTHER            -> TRUE

\* outcome of a call: a returned value, or a raised exception
Return(v)  == [ok |-> TRUE, exc |-> "", val |-> v]
Raise(exc) == [ok |-> FALSE, exc |-> exc, val |-> None]

---------------------------------------------------------------------------
(* str operations.                                                         *)

StartsWith(s, p) == Len(s) >= Len(p) /\ SubSeq(s, 1, Len(p)) = p

\* str.replace(old, new) for non-empty old: leftmost, non-overlapping, one pass
RECURSIVE str_replace(_, _, _)
str_replace(s, old, new) ==
    IF s = <<>> THEN <<>>
    ELSE IF StartsWith(s, old)
         THEN new \o str_replace(SubSeq(s, Len(old) + 1, Len(s)), old, new)
         ELSE <<Head(s)>> \o str_replace(Tail(s), old, new)

\* str.rstrip(c): drop every trailing c
RECURSIVE str_rstrip(_, _)
str_rstrip(s, c) ==
    IF s # <<>> /\ s[Len(s)] = c THEN str_rstrip(SubSeq(s, 1, Len(s) - 1), c) ELSE s

API == <<"/", "a", "p", "i">>

---------------------------------------------------------------------------
(* Configuration.get_url                                                   *)

\* a variant that removes "/api" and leaves the trailing slashes
get_url_no_rstrip(url) ==
    IF ~Truthy(url) THEN Raise("ValueError")
    ELSE IF url.t # "str" THEN Raise("AttributeError")
    ELSE Return(PyStr(str_replace(url.s, API, <<>>)))

\* a variant without the check for a missing url
get_url_unchecked(url) ==
    IF url.t # "str" THEN Return(PyStr(<<>>))
    ELSE Return(PyStr(str_rstrip(str_replace(url.s, API, <<>>), "/")))

get_url(url) ==
    IF ~Truthy(url) THEN Raise("ValueError")
    ELSE IF url.t # "str" THEN Raise("AttributeError")
    ELSE Return(PyStr(str_rstrip(str_replace(url.s, API, <<>>), "/")))

---------------------------------------------------------------------------
(* Configuration                                                           *)

\* a variant that skips a key whose value is falsy (dict.get(key) or ...)
RECURSIVE get_truthy(_, _, _)
get_truthy(json, keys, default) ==
    IF keys = <<>> THEN default
    ELSE IF Head(keys) \in DOMAIN json /\ Truthy(json[Head(keys)])
         THEN json[Head(keys)]
         ELSE get_truthy(json, Tail(keys), default)

\* next((self._json[key] for key in keys if key in self._json), default)
RECURSIVE get(_, _, _)
get(json, keys, default) ==
    IF keys = <<>> THEN default
    ELSE IF Head(keys) \in DOMAIN json
         THEN json[Head(keys)]
         ELSE get(json, Tail(keys), default)

NoConfig ==
    [live |-> FALSE, json |-> <<>>, url |-> None, ssl_verify |-> None,
     bearer_token |-> None, ssl_client |-> None, debug |-> None]

\* Configuration.__init__: the object, or the exception get_url raised
Configuration(json) ==
    LET url == get_url(get(json, <<"url", "ha_url">>, None))
        ssl_client == get(json, <<"ssl_client">>, PyStr(<<>>))
    IN  IF ~url.ok THEN [ok |-> FALSE, exc |-> url.exc, obj |-> NoConfig]
        ELSE [ok |-> TRUE, exc |-> "",
              obj |-> [live |-> TRUE,
                       json |-> json,
                       url |-> url.val,
                       ssl_verify |-> get(json, <<"ssl_verify", "ha_cert">>, PyBool(TRUE)),
                       bearer_token |-> get(json, <<"bearer_token">>, PyStr(<<>>)),
                       ssl_client |-> IF ssl_client.t = "list"
                                      THEN PyTuple(ssl_client.l) ELSE ssl_client,
                       debug |-> get(json, <<"debug">>, PyBool(FALSE))]]

\* ConfigurationLoader.load: open() and json.load() of the named file
ConfigurationLoader_load(file) ==
    CASE file.state = "missing"   -> [ok |-> FALSE, exc |-> "FileNotFoundError", json |-> <<>>]
      [] file.state = "malformed" -> [ok |-> FALSE, exc |-> "ValueError", json |-> <<>>]
      [] OTHER                    -> [ok |-> TRUE, exc |-> "", json |-> file.json]

---------------------------------------------------------------------------
(* SessionFactory                                                          *)

Unset == [set |-> FALSE, v |-> ""]
EnvVal(v) == [set |-> TRUE, v |-> v]

\* requests.utils.default_user_agent(); the version is the library's
default_user_agent == "python-requests/2"

UA_PREFIX == "Home Assistant Alexa Smart Home Skill - "

\* a variant that reads the variable without a default: str(None)
get_user_agent_no_default(env) ==
    UA_PREFIX \o (IF env.set THEN env.v ELSE "None") \o " - " \o default_user_agent

\* SessionFactory._get_user_agent
get_user_agent(env) ==
    LET aws_region == IF env.set THEN env.v ELSE "unknown"
    IN  UA_PREFIX \o aws_region \o " - " \o default_user_agent

\* str() of a value inside an f-string
format(v) ==
    CASE v.t = "str"      -> v.s
      [] v.t = "NoneType" -> <<"N", "o", "n", "e">>
      [] OTHER            -> <<"?">>

NoSession ==
    [live |-> FALSE, Authorization |-> <<>>, content_type |-> "", User_Agent |-> "",
     verify |-> None, cert |-> None]

\* SessionFactory.create_session
create_session(cfg, env) ==
    [live |-> TRUE,
     Authorization |-> <<"B", "e", "a", "r", "e", "r", " ">> \o format(cfg.bearer_token),
     content_type |-> "application/json",
     User_Agent |-> get_user_agent(env),
     verify |-> cfg.ssl_verify,
     cert |-> cfg.ssl_client]

---------------------------------------------------------------------------
(* The network, as the requests library shows it to the adapter.           *)

\* what one session.get / session.post call ends in: an exception raised by
\* the transport, or a response with its status and its body
Refused     == [exc |-> "ConnectionError", status |-> 0, valid |-> FALSE, json |-> None]
ConnTimeout == [exc |-> "ConnectTimeout", status |-> 0, valid |-> FALSE, json |-> None]
ReadTimeout == [exc |-> "ReadTimeout", status |-> 0, valid |-> FALSE, json |-> None]
Response(status, valid, json) == [exc |-> "", status |-> status, valid |-> valid, json |-> json]

\* the exception classes of requests.exceptions the outcomes raise, with the
\* classes each one derives from
Bases(cls) ==
    CASE cls = "ReadTimeout"     -> {"Timeout"}
      [] cls = "ConnectTimeout"  -> {"ConnectionError", "Timeout"}
      [] cls = "Timeout"         -> {"RequestException"}
      [] cls = "ConnectionError" -> {"RequestException"}
      [] cls = "HTTPError"       -> {"RequestException"}
      [] cls = "JSONDecodeError" -> {"RequestException"}
      [] OTHER                   -> {}

\* whether an `except cls:` clause catches an exception of class exc
RECURSIVE Catches(_, _)
Catches(cls, exc) == exc = cls \/ \E b \in Bases(exc) : Catches(cls, b)

\* Response.raise_for_status: raises for the 4xx and 5xx statuses only
raise_for_status(r) == (r.status >= 400 /\ r.status < 600)

\* r.raise_for_status(); return r.json()
read_response(r) ==
    IF r.exc # "" THEN Raise(r.exc)
    ELSE IF raise_for_status(r) THEN Raise("HTTPError")
    ELSE IF ~r.valid THEN Raise("JSONDecodeError")
    ELSE Return(r.json)

---------------------------------------------------------------------------
(* HomeAssistant                                                           *)

DEFAULT_TIMEOUT_SECONDS == 30

NoHA == [live |-> FALSE, base_url |-> None, session |-> NoSession]

\* HomeAssistant.__init__(self, base_url, session), called with the
\* positional arguments a: a call with another number of them is a TypeError
HomeAssistant(a) ==
    IF Len(a) # 2 THEN [ok |-> FALSE, exc |-> "TypeError", obj |-> NoHA]
    ELSE [ok |-> TRUE, exc |-> "",
          obj |-> [live |-> TRUE, base_url |-> a[1], session |-> a[2]]]

\* HomeAssistant.build_url
build_url(self, endpoint) == format(self.base_url) \o <<"/", "a", "p", "i", "/">> \o endpoint

Request(method, url, json, timeout) ==
    [method |-> method, url |-> url, json |-> json, timeout |-> timeout]

\* HomeAssistant.get
ha_get(self, endpoint, outcome) ==
    [ret |-> read_response(outcome),
     sent |-> <<Request("GET", build_url(self, endpoint), None, None)>>]

\* a variant that sends the request again after a read-timeout
post_retry(self, endpoint, event, timeout_seconds, outcome) ==
    LET req == Request("POST", build_url(self, endpoint), event, timeout_seconds)
        r   == read_response(outcome)
    IN  IF ~r.ok /\ Catches("ReadTimeout", r.exc)
        THEN [ret |-> Return(None), sent |-> <<req, req>>]
        ELSE [ret |-> r, sent |-> <<req>>]

\* a variant without the except clause
post_no_except(self, endpoint, event, timeout_seconds, outcome) ==
    [ret |-> read_response(outcome),
     sent |-> <<Request("POST", build_url(self, endpoint), event, timeout_seconds)>>]

\* a variant whose except clause names requests.exceptions.RequestException
post_except_all(self, endpoint, event, timeout_seconds, outcome) ==
    LET r == read_response(outcome)
    IN  [ret |-> IF ~r.ok /\ Catches("RequestException", r.exc) THEN Return(None) ELSE r,
         sent |-> <<Request("POST", build_url(self, endpoint), event, timeout_seconds)>>]

\* HomeAssistant.post: one session.post call; a ReadTimeout becomes None
post(self, endpoint, event, timeout_seconds, outcome) ==
    LET r == read_response(outcome)
    IN  [ret |-> IF ~r.ok /\ Catches("ReadTimeout", r.exc) THEN Return(None) ELSE r,
         sent |-> <<Request("POST", build_url(self, endpoint), event, timeout_seconds)>>]

---------------------------------------------------------------------------
(* Inputs.                                                                 *)

\* the text of a str literal
h_api == <<"h", "/", "a", "p", "i", "/">>
ALEXA_SMART_HOME ==
    <<"a", "l", "e", "x", "a", "/", "s", "m", "a", "r", "t", "_", "h", "o", "m", "e">>
TEST == <<"t", "e", "s", "t">>

Keys == {"url", "ha_url", "ssl_verify", "ha_cert", "bearer_token", "ssl_client", "debug"}

\* marks a key that the mapping does not hold
Absent == PyVal("absent", <<>>, FALSE, <<>>, 0)

\* the mapping that holds the keys of r that are not Absent
ToJson(r) == [k \in {x \in Keys : r[x] # Absent} |-> r[k]]

\* every source mapping the configuration claims are checked on
AllJsons ==
    {ToJson(r) : r \in
        [url : {Absent, None, PyStr(<<>>), PyStr(<<"h">>), PyStr(h_api),
                PyStr(API), PyStr(<<"/">>)},
         ha_url : {Absent, PyStr(<<>>), PyStr(<<"g", "/">>)},
         ssl_verify : {Absent, PyBool(FALSE)},
         ha_cert : {Absent, PyStr(<<"c", "a">>)},
         bearer_token : {Absent, PyStr(<<"t">>)},
         ssl_client : {Absent, PyList(<<>>), PyList(<<<<"c">>, <<"k">>>>)},
         debug : {Absent, PyBool(FALSE), PyBool(TRUE)}]}

\* the source mappings of the request-forwarding specification
Jsons ==
    {ToJson(r) : r \in
        [url : {Absent, PyStr(<<"h">>), PyStr(h_api)},
         ha_url : {Absent},
         ssl_verify : {Absent},
         ha_cert : {Absent},
         bearer_token : {Absent, PyStr(<<"t">>)},
         ssl_client : {Absent},
         debug : {Absent, PyBool(TRUE)}]}

\* the mapping of the fixture `configuration` of test.py
FixtureJson ==
    ToJson([url |-> PyStr(<<"h">>), ha_url |-> Absent, ssl_verify |-> PyBool(TRUE),
            ha_cert |-> Absent, bearer_token |-> PyStr(<<>>),
            ssl_client |-> PyList(<<>>), debug |-> PyBool(FALSE)])

KeyLists ==
    {<<"url", "ha_url">>, <<"ha_url", "url">>, <<"ssl_verify", "ha_cert">>,
     <<"bearer_token">>, <<"ssl_client">>, <<"debug">>, <<"test">>, <<>>}
Defaults == {None, PyStr(<<"d">>)}

Regions == {"test", "eu-west-1"}
Environs == {Unset} \cup {EnvVal(r) : r \in Regions}

Endpoints == {ALEXA_SMART_HOME, TEST}
Events == {PyDict(<<"e">>)}
Timeouts == {PyNum(DEFAULT_TIMEOUT_SECONDS), PyNum(5)}
Outcomes ==
    {Refused, ConnTimeout, ReadTimeout,
     Response(200, TRUE, PyDict(<<"r">>)), Response(200, TRUE, None),
     Response(200, FALSE, None),
     Response(300, TRUE, PyDict(<<"r">>)),
     Response(404, TRUE, PyDict(<<"r">>)), Response(500, FALSE, None)}

\* config.json as event_handler finds it
Files ==
    {[state |-> "missing", json |-> <<>>], [state |-> "malformed", json |-> <<>>]}
    \cup {[state |-> "json", json |-> j] : j \in Jsons}

UrlPieces == {<<"/">>, <<"a">>, <<"p">>, <<"i">>, <<"h">>, API}

\* the concatenations of at most n pieces
RECURSIVE UrlsOf(_)
UrlsOf(n) ==
    IF n = 0 THEN {<<>>}
    ELSE LET shorter == UrlsOf(n - 1)
         IN  shorter \cup {u \o x : u \in shorter, x \in UrlPieces}

Urls == UrlsOf(MaxUrlPieces)

---------------------------------------------------------------------------
(* Operations.                                                             *)

NoArgs == <<>>

\* Configuration(json), as the fixture `configuration` of test.py calls it
NewConfiguration(jsons) ==
    /\ ~config.live
    /\ \E j \in jsons :
          LET c == Configuration(j)
          IN  /\ config' = c.obj
              /\ op' = "Configuration"
              /\ args' = <<j>>
              /\ result' = IF c.ok THEN Return(None) ELSE Raise(c.exc)
    /\ sent' = <<>>
    /\ UNCHANGED <<environ, session, built_region, ha, log_level>>

\* configuration.get(keys) and configuration.get(keys, default)
ConfigGet ==
    /\ config.live
    /\ \E keys \in KeyLists, default \in Defaults :
          /\ op' = "Configuration.get"
          /\ args' = <<keys, default>>
          /\ result' = Return(get(config.json, keys, default))
    /\ sent' = <<>>
    /\ UNCHANGED <<config, environ, session, built_region, ha, log_level>>

\* configuration.get_url(url) on a str argument
GetUrl ==
    /\ config.live
    /\ op = "init"
    /\ \E u \in Urls :
          /\ args' = <<PyStr(u)>>
          /\ result' = get_url(PyStr(u))
    /\ op' = "get_url"
    /\ sent' = <<>>
    /\ UNCHANGED <<config, environ, session, built_region, ha, log_level>>

\* configuration.get_url applied to what get_url returned
GetUrlAgain ==
    /\ config.live
    /\ op = "get_url"
    /\ result.ok
    /\ args' = <<result.val>>
    /\ result' = get_url(result.val)
    /\ op' = "get_url_again"
    /\ sent' = <<>>
    /\ UNCHANGED <<config, environ, session, built_region, ha, log_level>>

\* os.environ["AWS_DEFAULT_REGION"] = ..., or the variable removed
SetEnviron ==
    /\ \E e \in Environs : e # environ /\ environ' = e
    /\ UNCHANGED <<config, session, built_region, ha, log_level, op, args, result, sent>>

\* SessionFactory.create_session(configuration)
CreateSession ==
    /\ config.live
    /\ session' = create_session(config, environ)
    /\ built_region' = environ
    /\ op' = "create_session"
    /\ args' = NoArgs
    /\ result' = Return(None)
    /\ sent' = <<>>
    /\ UNCHANGED <<config, environ, ha, log_level>>

\* HomeAssistant(configuration.url, session), the fixture `home_assistant`
NewHomeAssistant ==
    /\ config.live
    /\ session.live
    /\ LET h == HomeAssistant(<<config.url, session>>)
       IN  /\ ha' = h.obj
           /\ result' = IF h.ok THEN Return(None) ELSE Raise(h.exc)
    /\ op' = "HomeAssistant"
    /\ args' = NoArgs
    /\ sent' = <<>>
    /\ UNCHANGED <<config, environ, session, built_region, log_level>>

\* home_assistant.build_url(endpoint)
BuildUrl ==
    /\ ha.live
    /\ \E endpoint \in Endpoints :
          /\ args' = <<endpoint>>
          /\ result' = Return(PyStr(build_url(ha, endpoint)))
    /\ op' = "build_url"
    /\ sent' = <<>>
    /\ UNCHANGED <<config, environ, session, built_region, ha, log_level>>

\* home_assistant.get(endpoint)
Get ==
    /\ ha.live
    /\ \E endpoint \in Endpoints, outcome \in Outcomes :
          LET g == ha_get(ha, endpoint, outcome)
          IN  /\ args' = <<endpoint, outcome>>
              /\ result' = g.ret
              /\ sent' = g.sent
    /\ op' = "get"
    /\ UNCHANGED <<config, environ, session, built_region, ha, log_level>>

\* home_assistant.post(endpoint, event, timeout_seconds)
Post ==
    /\ ha.live
    /\ \E endpoint \in Endpoints, event \in Events, timeout \in Timeouts,
          outcome \in Outcomes :
          LET p == post(ha, endpoint, event, timeout, outcome)
          IN  /\ args' = <<endpoint, event, timeout, outcome>>
              /\ result' = p.ret
              /\ sent' = p.sent
    /\ op' = "post"
    /\ UNCHANGED <<config, environ, session, built_region, ha, log_level>>

\* event_handler(event, _context), from the load of config.json to its
\* return or to the exception that leaves it: the ways the call can end,
\* one for each answer of the network once a request is issued
event_handler(event, file) ==
    LET loaded == ConfigurationLoader_load(file)
        c      == Configuration(loaded.json)
        level  == IF Truthy(c.obj.debug) THEN "DEBUG" ELSE log_level
        h      == HomeAssistant(<<c.obj>>)
    IN  IF ~loaded.ok
        THEN {[ret |-> Raise(loaded.exc), sent |-> <<>>, level |-> log_level]}
        ELSE IF ~c.ok
        THEN {[ret |-> Raise(c.exc), sent |-> <<>>, level |-> log_level]}
        ELSE IF ~h.ok
        THEN {[ret |-> Raise(h.exc), sent |-> <<>>, level |-> level]}
        ELSE {[ret |-> p.ret, sent |-> p.sent, level |-> level] :
                 p \in {post(h.obj, ALEXA_SMART_HOME, event,
                             PyNum(DEFAULT_TIMEOUT_SECONDS), outcome) :
                           outcome \in Outcomes}}

EventHandler ==
    /\ \E event \in Events, file \in Files :
          \E r \in event_handler(event, file) :
              /\ args' = <<event, file>>
              /\ result' = r.ret
              /\ sent' = r.sent
              /\ log_level' = r.level
    /\ op' = "event_handler"
    /\ UNCHANGED <<config, environ, session, built_region, ha>>

---------------------------------------------------------------------------
(* Specifications.                                                         *)

\* a fresh process: nothing constructed, the region variable in any state
Init ==
    /\ config = NoConfig
    /\ environ \in Environs
    /\ session = NoSession
    /\ built_region = Unset
    /\ ha = NoHA
    /\ log_level = "WARNING"
    /\ op = "init"
    /\ args = NoArgs
    /\ result = Return(None)
    /\ sent = <<>>

\* the adapter and its API client
Next ==
    \/ NewConfiguration(Jsons)
    \/ SetEnviron
    \/ CreateSession
    \/ NewHomeAssistant
    \/ BuildUrl
    \/ Get
    \/ Post
    \/ EventHandler

Spec == Init /\ [][Next]_vars

\* Configuration alone, on every source mapping
NextConfig ==
    \/ NewConfiguration(AllJsons)
    \/ ConfigGet

SpecConfig == Init /\ [][NextConfig]_vars

\* test_config_get_url: get_url called on the fixture configuration
InitUrl ==
    /\ config = Configuration(FixtureJson).obj
    /\ environ = Unset
    /\ session = NoSession
    /\ built_region = Unset
    /\ ha = NoHA
    /\ log_level = "WARNING"
    /\ op = "init"
    /\ args = NoArgs
    /\ result = Return(None)
    /\ sent = <<>>

NextUrl ==
    \/ GetUrl
    \/ GetUrlAgain

SpecUrl == InitUrl /\ [][NextUrl]_vars

---------------------------------------------------------------------------
(* Properties.                                                             *)

EndsWith(s, p) == Len(s) >= Len(p) /\ SubSeq(s, Len(s) - Len(p) + 1, Len(s)) = p
Contains(s, p) == \E i \in 1..(Len(s) - Len(p) + 1) : SubSeq(s, i, i + Len(p) - 1) = p
DropLast(s, n) == SubSeq(s, 1, Len(s) - n)

\* the file holds a mapping from which a Configuration can be constructed
ValidConfigFile(file) == file.state = "json" /\ Configuration(file.json).ok

\* C1: whenever config.json yields a valid Configuration, event_handler
\* issues exactly one POST, to config.url + "/api/alexa/smart_home" with the
\* event as body and the default timeout, and ends as that call ends (its
\* JSON, None on a read-timeout, or the call's own error): it never ends in
\* an error that is not the call's.
C1_HandlerForwardsEvent ==
    (op = "event_handler" /\ ValidConfigFile(args[2])) =>
        /\ sent = <<Request("POST",
                            Configuration(args[2].json).obj.url.s
                                \o <<"/", "a", "p", "i", "/">> \o ALEXA_SMART_HOME,
                            args[1], PyNum(DEFAULT_TIMEOUT_SECONDS))>>
        /\ (result.ok \/ result.exc \in {"ConnectionError", "ConnectTimeout",
                                         "HTTPError", "JSONDecodeError"})

\* C2: HomeAssistant.post returns None and raises nothing whenever the
\* outbound POST ends in a read-timeout, whatever the endpoint, the body and
\* the timeout.
C2_ReadTimeoutReturnsNone ==
    (op = "post" /\ args[4].exc = "ReadTimeout") => result = Return(None)

C2_Witness ==
    /\ op = "post"
    /\ args[4] = ReadTimeout
    /\ args[1] = ALEXA_SMART_HOME
    /\ args[3] = PyNum(5)
    /\ result.ok

\* the POST failed otherwise than by a read-timeout, as the claim lists the
\* failures: no connection, a status outside 200..299, a body that is no JSON
OtherFailure(outcome) ==
    \/ outcome.exc \in {"ConnectionError", "ConnectTimeout"}
    \/ outcome.exc = "" /\ (outcome.status < 200 \/ outcome.status > 299 \/ ~outcome.valid)

\* the same, with the statuses that raise_for_status reports
OtherFailure4xx5xx(outcome) ==
    \/ outcome.exc \in {"ConnectionError", "ConnectTimeout"}
    \/ outcome.exc = "" /\ (outcome.status \in 400..599 \/ ~outcome.valid)

\* C3, as stated: after any failure other than a read-timeout, a non-2xx
\* status included, HomeAssistant.post ends in an error and returns neither
\* None nor a JSON value.
C3_OtherFailurePropagates ==
    (op = "post" /\ OtherFailure(args[4])) => ~result.ok

\* C3, amended: HomeAssistant.post ends in an error (never None, never a JSON
\* value), which differs from the read-timeout outcome, after a refused
\* connection, a connect-timeout, a 4xx or 5xx status, or a response body
\* that is not valid JSON.
C3_Failure4xx5xxPropagates ==
    (op = "post" /\ OtherFailure4xx5xx(args[4])) =>
        /\ ~result.ok
        /\ result.exc \in {"ConnectionError", "ConnectTimeout", "HTTPError", "JSONDecodeError"}
        /\ result # Return(None)

C3_Witness ==
    /\ op = "post"
    /\ args[4].exc = ""
    /\ args[4].status = 404
    /\ result = Raise("HTTPError")

\* neither "url" nor "ha_url" is a key of the mapping
UrlAbsent(j) == "url" \notin DOMAIN j /\ "ha_url" \notin DOMAIN j

\* the first of "url", "ha_url" that is a key holds v
UrlIs(j, v) ==
    IF "url" \in DOMAIN j THEN j["url"] = v
    ELSE "ha_url" \in DOMAIN j /\ j["ha_url"] = v

\* C4: Configuration(json) raises the configuration error and leaves no
\* Configuration object whenever the url is absent (under both keys) or
\* empty; and it fails only when the url is absent, empty or null: whichever
\* of the other keys are absent, a mapping with a str url is constructed.
C4_MissingUrlFails ==
    op = "Configuration" =>
        /\ (UrlAbsent(args[1]) \/ UrlIs(args[1], PyStr(<<>>))) =>
               (result = Raise("ValueError") /\ ~config.live)
        /\ ~result.ok =>
               (UrlAbsent(args[1]) \/ UrlIs(args[1], PyStr(<<>>)) \/ UrlIs(args[1], None))

C4_Witness ==
    /\ op = "Configuration"
    /\ "url" \in DOMAIN args[1]
    /\ args[1]["url"] = PyStr(<<>>)
    /\ "ha_url" \in DOMAIN args[1]
    /\ args[1]["ha_url"] = PyStr(<<"g", "/">>)
    /\ result = Raise("ValueError")

\* C5: Configuration.get(keys, default) returns the value under the first key
\* of keys, in list order, that the mapping holds, also when that value is
\* False or empty; when the mapping holds none of them it returns default,
\* which is None when no default is given.
C5_GetFirstPresentKey ==
    op = "Configuration.get" =>
        LET keys    == args[1]
            present == {i \in 1..Len(keys) : keys[i] \in DOMAIN config.json}
        IN  IF present = {}
            THEN result = Return(args[2])
            ELSE \E i \in present :
                    /\ \A k \in present : i <= k
                    /\ result = Return(config.json[keys[i]])

C5_Witness ==
    /\ op = "Configuration.get"
    /\ args[1] = <<"debug">>
    /\ "debug" \in DOMAIN config.json
    /\ config.json["debug"] = PyBool(FALSE)
    /\ result = Return(PyBool(FALSE))

\* C6: for every b that contains no "/api" and does not end in "/", get_url
\* maps b + "/", b + "/api" and b + "/api/" to b.
C6_SuffixesNormalizeToBase ==
    op = "get_url" =>
        \A sfx \in {<<"/">>, API, API \o <<"/">>} :
            LET u == args[1].s
                b == DropLast(u, Len(sfx))
            IN  (EndsWith(u, sfx) /\ ~Contains(b, API) /\ ~EndsWith(b, <<"/">>)) =>
                    result = Return(PyStr(b))

C6_Witness ==
    /\ op = "get_url"
    /\ args[1] = PyStr(h_api)
    /\ result = Return(PyStr(<<"h">>))

\* C7: get_url is idempotent: a non-empty normalized URL contains no "/api"
\* and no trailing "/", and get_url maps it to itself.
C7_GetUrlIdempotent ==
    /\ (op = "get_url" /\ result.ok /\ result.val.s # <<>>) =>
           (~Contains(result.val.s, API) /\ ~EndsWith(result.val.s, <<"/">>))
    /\ (op = "get_url_again" /\ args[1].s # <<>>) => result = Return(args[1])

\* C8: the User-Agent of a built session is "Home Assistant Alexa Smart Home
\* Skill - <region> - " followed by the library's user agent, where <region>
\* is what the variable held when the session was built, "unknown" if it was
\* unset then; what the variable holds later does not matter.
C8_UserAgentRegionAtBuild ==
    session.live =>
        session.User_Agent =
            "Home Assistant Alexa Smart Home Skill - "
                \o (IF built_region.set THEN built_region.v ELSE "unknown")
                \o " - " \o default_user_agent

C8_Witness ==
    /\ session.live
    /\ ~built_region.set
    /\ environ = EnvVal("test")
    /\ session.User_Agent =
           "Home Assistant Alexa Smart Home Skill - unknown - " \o default_user_agent

\* config.json is missing or malformed, or no Configuration can be
\* constructed from it
ConfigFails(file) == file.state # "json" \/ ~Configuration(file.json).ok

\* C9: one invocation of event_handler, and one call of HomeAssistant.post,
\* issues at most one outbound call whatever its outcome, and event_handler
\* issues none when loading or constructing the configuration fails.
C9_AtMostOneCall ==
    /\ op \in {"event_handler", "post"} => Len(sent) <= 1
    /\ (op = "event_handler" /\ ConfigFails(args[2])) => (sent = <<>> /\ ~result.ok)

C9_Witness ==
    /\ op = "post"
    /\ args[4] = ReadTimeout
    /\ Len(sent) = 1
    /\ sent[1].method = "POST"

\* C10: a Configuration that was constructed holds a non-empty url, so that
\* no URL built from it begins with "/api/".
C10_UrlNonEmpty ==
    config.live =>
        /\ config.url.s # <<>>
        /\ ~StartsWith(build_url([base_url |-> config.url], TEST), <<"/", "a", "p", "i", "/">>)

====
